---- MODULE Spec2Model ----
(***************************************************************************)
(* Order intake and status tracking of the FLORA bot (src/bot.py).         *)
(*                                                                         *)
(* State: the wall clock, the two JSON files (order_counter.json and       *)
(* orders.json) and the handler coroutines that are suspended at an await. *)
(* A handler runs without interruption from its start to its first await   *)
(* and from one await to the next, so every action below is one such       *)
(* synchronous segment.                                                    *)
(*                                                                         *)
(* Strings that are formatted, trimmed or ordered are sequences of         *)
(* character codes (ASCII, and U+2014 for the dash safe_str returns).      *)
(* strftime keeps its fixed-width zero-padded shape with fewer digits:     *)
(* "%Y%m%d" is two digits of the day number, "%H:%M:%S" one digit.         *)
(***************************************************************************)
EXTENDS Integers, Sequences, FiniteSets, TLC

\* ---------------------------------------------------------------- bounds
MaxNow == 1
TicksPerDay == 1
MaxOrders == 2
MaxCounter == 2
MaxTasks == 2
MaxLimit == 2

\* ------------------------------------------------------------ characters
SP == 32
DASH == 45
ZERO == 48
EMDASH == 8212
FL == <<70, 76>>
Digit(d) == ZERO + d

\* str.strip(): leading and trailing whitespace removed
RECURSIVE LStrip(_)
LStrip(s) == IF s # <<>> /\ Head(s) = SP THEN LStrip(Tail(s)) ELSE s

RECURSIVE RStrip(_)
RStrip(s) == IF s # <<>> /\ s[Len(s)] = SP THEN RStrip(SubSeq(s, 1, Len(s) - 1)) ELSE s

Strip(s) == RStrip(LStrip(s))

\* Python's order on str: lexicographic by code point, a proper prefix first
RECURSIVE StrLess(_, _)
StrLess(a, b) ==
    IF b = <<>> THEN FALSE
    ELSE IF a = <<>> THEN TRUE
    ELSE IF Head(a) # Head(b) THEN Head(a) < Head(b)
    ELSE StrLess(Tail(a), Tail(b))

StrLeq(a, b) == a = b \/ StrLess(a, b)

\* decimal digits of a natural number
RECURSIVE Dec(_)
Dec(n) == IF n < 10 THEN <<Digit(n)>> ELSE Dec(n \div 10) \o <<Digit(n % 10)>>

RECURSIVE ZFill(_, _)
ZFill(s, w) == IF Len(s) >= w THEN s ELSE ZFill(<<ZERO>> \o s, w)

\* format(n, "04d") and its like: at least w digits, more when n needs them
Pad(n, w) == ZFill(Dec(n), w)

\* ------------------------------------------------------- JSON values
\* A JSON scalar as Python holds it: None, a str or an int (its decimal text).
Null == [k |-> "null", s |-> <<>>]
Str(s) == [k |-> "str", s |-> s]
Num(n) == [k |-> "num", s |-> Dec(n)]

\* bool(x): None, "" and 0 are false
Truthy(v) == \/ v.k = "str" /\ v.s # <<>>
             \/ v.k = "num" /\ v.s # <<ZERO>>

\* str(x)
PyStr(v) == IF v.k = "null" THEN <<78, 111, 110, 101>> ELSE v.s

\* ------------------------------------------------------------- config
ADMIN_ID == 1
NoUser == 0
Users == {ADMIN_ID, 2}

\* ------------------------------------------------------------ helpers
\* now_local().strftime("%Y%m%d")
Ymd(n) == Pad(n \div TicksPerDay, 2)

\* now_local().strftime("%Y-%m-%d %H:%M:%S")
Timestamp(n) == Pad(n \div TicksPerDay, 2) \o <<SP>> \o Pad(n % TicksPerDay, 1)

safe_str(x) == IF x.k = "null" \/ Strip(PyStr(x)) = <<>> THEN <<EMDASH>> ELSE Strip(PyStr(x))

\* Path.write_text inside try/except: the text is written ("ok"), or open()
\* fails and the file is as it was ("denied"), or the write fails after
\* open() has truncated the file ("partial").
WriteOutcomes == {"ok", "denied", "partial"}

Absent == [st |-> "absent", date |-> <<>>, counter |-> 0, data |-> <<>>]
Corrupt == [st |-> "corrupt", date |-> <<>>, counter |-> 0, data |-> <<>>]

write_text(file, content, outcome) ==
    CASE outcome = "ok" -> content
      [] outcome = "denied" -> file
      [] OTHER -> Corrupt

\* the counter record get_next_order_id computes, before it is written
next_counter(file, today) ==
    LET fresh == [date |-> today, counter |-> 0]
        read == IF file.st = "ok" THEN [date |-> file.date, counter |-> file.counter]
                ELSE fresh
        data == IF read.date # today THEN fresh ELSE read
    IN  [data EXCEPT !.counter = data.counter + 1]

get_next_order_id(prefix, file, today, outcome) ==
    LET data == next_counter(file, today)
    IN  [id |-> prefix \o <<DASH>> \o today \o <<DASH>> \o Pad(data.counter, 4),
         file |-> write_text(file,
                     [st |-> "ok", date |-> data.date, counter |-> data.counter,
                      data |-> <<>>],
                     outcome)]

\* safe_read_json(ORDERS_FILE, default=[]): a missing, empty or unparsable
\* file reads as the default
safe_read_json(file) == IF file.st = "ok" THEN file.data ELSE <<>>

safe_write_json(file, db, outcome) ==
    write_text(file, [st |-> "ok", date |-> <<>>, counter |-> 0, data |-> db], outcome)

\* variant: the order is never written
store_order_unwritten(file, order, outcome) == file

\* variant: the file is not read before it is rewritten
store_order_unread(file, order, outcome) == safe_write_json(file, <<order>>, outcome)

store_order(file, order, outcome) ==
    safe_write_json(file, Append(safe_read_json(file), order), outcome)

\* variant: the first record matches whatever the argument
FirstMatch_any(db, order_id, i) == IF db = <<>> THEN 0 ELSE 1

\* index of the first record whose str(orderId) equals the argument, 0 if none
RECURSIVE FirstMatch(_, _, _)
FirstMatch(db, order_id, i) ==
    IF i > Len(db) THEN 0
    ELSE IF PyStr(db[i].orderId) = order_id THEN i
    ELSE FirstMatch(db, order_id, i + 1)

\* variant: no break, every matching record is updated
update_order_status_all(file, order_id, new_status, n, outcome) ==
    LET db == safe_read_json(file)
        i == FirstMatch(db, order_id, 1)
        db2 == [j \in DOMAIN db |->
                   IF PyStr(db[j].orderId) = order_id
                   THEN [db[j] EXCEPT !.status = new_status,
                                      !.statusUpdatedAt = Str(Timestamp(n))]
                   ELSE db[j]]
    IN  IF i = 0 THEN [found |-> 0, db |-> db, file |-> file]
        ELSE [found |-> i, db |-> db2, file |-> safe_write_json(file, db2, outcome)]

update_order_status(file, order_id, new_status, n, outcome) ==
    LET db == safe_read_json(file)
        i == FirstMatch(db, order_id, 1)
        db2 == [db EXCEPT ![i].status = new_status,
                          ![i].statusUpdatedAt = Str(Timestamp(n))]
    IN  IF i = 0 THEN [found |-> 0, db |-> db, file |-> file]
        ELSE [found |-> i, db |-> db2, file |-> safe_write_json(file, db2, outcome)]

\* list.sort(key=..., reverse=True): stable, so records with equal keys keep
\* their order; as an insertion sort that places a record after every record
\* whose key is not smaller
RECURSIVE InsertDesc(_, _)
InsertDesc(sorted, o) ==
    IF sorted = <<>> THEN <<o>>
    ELSE IF StrLess(safe_str(Head(sorted).createdAt), safe_str(o.createdAt))
         THEN <<o>> \o sorted
         ELSE <<Head(sorted)>> \o InsertDesc(Tail(sorted), o)

RECURSIVE SortDesc(_, _)
SortDesc(db, acc) == IF db = <<>> THEN acc ELSE SortDesc(Tail(db), InsertDesc(acc, Head(db)))

Take(s, limit) == SubSeq(s, 1, IF limit < Len(s) THEN limit ELSE Len(s))

RECURSIVE FilterOwner(_, _)
FilterOwner(db, tg_id) ==
    IF db = <<>> THEN <<>>
    ELSE (IF Head(db).tgId = tg_id THEN <<Head(db)>> ELSE <<>>) \o FilterOwner(Tail(db), tg_id)

get_user_orders(file, tg_id, limit) ==
    Take(SortDesc(FilterOwner(safe_read_json(file), tg_id), <<>>), limit)

\* variant: the records are not sorted
get_last_orders_unsorted(file, limit) == Take(safe_read_json(file), limit)

get_last_orders(file, limit) == Take(SortDesc(safe_read_json(file), <<>>), limit)

\* ------------------------------------------------------------- inputs
\* What a client can put into web_app_data.data: text that is not JSON, JSON
\* that is not an object, or an object with these keys (a key that is absent
\* is None, or "" for status, or 0 for tgId).  `by` is not a key of the
\* payload: it records who sent the update that carried it.
NoOrder == [type |-> "", orderId |-> Null, createdAt |-> Null, status |-> "",
            statusUpdatedAt |-> Null, tgId |-> NoUser, by |-> NoUser]

Ping == [NoOrder EXCEPT !.type = "ping"]

Plain == [NoOrder EXCEPT !.type = "order"]

\* an order that brings its own orderId (the number 7), a createdAt with a
\* leading blank and somebody else's tgId
Crafted == [NoOrder EXCEPT !.type = "order", !.orderId = Num(7),
                           !.createdAt = Str(<<SP, Digit(9)>>),
                           !.tgId = ADMIN_ID]

Raws == {[json |-> "invalid", payload |-> NoOrder],
         [json |-> "array", payload |-> NoOrder],
         [json |-> "object", payload |-> Ping],
         [json |-> "object", payload |-> Plain],
         [json |-> "object", payload |-> Crafted]}

\* command.args of /setstatus, split: n is the number of parts
FirstId == FL \o <<DASH>> \o Pad(0, 2) \o <<DASH>> \o Pad(1, 4)

Args == {[n |-> 0, order_id |-> <<>>, new_status |-> ""],
         [n |-> 1, order_id |-> FirstId, new_status |-> ""],
         [n |-> 2, order_id |-> FirstId, new_status |-> "courier"],
         [n |-> 2, order_id |-> Dec(7), new_status |-> "courier"]}

NoArgs == [n |-> 0, order_id |-> <<>>, new_status |-> ""]

LIST_LIMIT == 10

\* -------------------------------------------------------------- state
\* now          the wall clock, in ticks
\* counterFile  COUNTER_FILE
\* ordersFile   ORDERS_FILE
\* tasks        the handler coroutines, each at an await or not running
\* issued       the last return of get_next_order_id, and the day of the call
\* io           the outcome of the last write of ORDERS_FILE, and the files a
\*              write of which has failed so far
VARIABLES now, counterFile, ordersFile, tasks, issued, io

vars == <<now, counterFile, ordersFile, tasks, issued, io>>

Tasks == 1..MaxTasks

\* a handler that is not running: op, sender, input and sent tell what the
\* last handler of this slot was and which messages it handed to the transport
Idle == [pc |-> "idle", op |-> "", sender |-> NoUser, input |-> "", reply |-> "",
         to |-> NoUser, args |-> NoArgs, order |-> NoOrder, sent |-> <<>>]

Free(t) == tasks[t].pc \in {"idle", "done"}

\* the handler has run into `await message.answer(reply)`
Awaiting(op, sender, input, reply, order) ==
    [pc |-> "answer", op |-> op, sender |-> sender, input |-> input, reply |-> reply,
     to |-> sender, args |-> NoArgs, order |-> order, sent |-> <<>>]

\* the handler has returned, or an exception has ended it
Done(task) == [task EXCEPT !.pc = "done", !.reply = "", !.to = NoUser,
                           !.args = NoArgs, !.order = NoOrder]

NoCall == [id |-> <<>>, date |-> <<>>]

Wrote(file, outcome) ==
    [orders |-> IF file = "orders" THEN outcome ELSE io.orders,
     failed |-> IF outcome = "ok" THEN io.failed ELSE io.failed \cup {file}]

Init ==
    /\ now = 0
    /\ counterFile = Absent
    /\ ordersFile = Absent
    /\ tasks = [t \in Tasks |-> Idle]
    /\ issued = NoCall
    /\ io = [orders |-> "", failed |-> {}]

\* ------------------------------------------------------------- actions
Tick ==
    /\ now < MaxNow
    /\ now' = now + 1
    /\ UNCHANGED <<counterFile, ordersFile, tasks, issued, io>>

\* variant: a tgId the payload brings is kept
Enrich_keep_tgId(payload, id, n, sender) ==
    [payload EXCEPT
        !.orderId = IF Truthy(payload.orderId) THEN payload.orderId ELSE Str(id),
        !.createdAt = IF Truthy(payload.createdAt) THEN payload.createdAt
                      ELSE Str(Timestamp(n)),
        !.status = IF payload.status # "" THEN payload.status ELSE "accepted",
        !.tgId = IF payload.tgId # NoUser THEN payload.tgId ELSE sender]

\* the defaults and the Telegram binding on_webapp_data puts into the payload
Enrich(payload, id, n, sender) ==
    [payload EXCEPT
        !.orderId = IF Truthy(payload.orderId) THEN payload.orderId ELSE Str(id),
        !.createdAt = IF Truthy(payload.createdAt) THEN payload.createdAt
                      ELSE Str(Timestamp(n)),
        !.status = IF payload.status # "" THEN payload.status ELSE "accepted",
        !.tgId = sender]

on_webapp_data(t, sender, raw, cw, ow) ==
    /\ Free(t)
    /\ IF raw.json = "invalid"
       THEN /\ tasks' = [tasks EXCEPT ![t] =
                   Awaiting("webapp", sender, raw.json, "parse_error", NoOrder)]
            /\ UNCHANGED <<counterFile, ordersFile, issued, io>>
       ELSE IF raw.json # "object"
       THEN \* payload.get raises AttributeError
            /\ tasks' = [tasks EXCEPT ![t] =
                   Done(Awaiting("webapp", sender, raw.json, "", NoOrder))]
            /\ UNCHANGED <<counterFile, ordersFile, issued, io>>
       ELSE IF raw.payload.type # "order"
       THEN /\ tasks' = [tasks EXCEPT ![t] =
                   Awaiting("webapp", sender, raw.payload.type, "ack", NoOrder)]
            /\ UNCHANGED <<counterFile, ordersFile, issued, io>>
       ELSE LET call == ~Truthy(raw.payload.orderId)
                gen == get_next_order_id(FL, counterFile, Ymd(now), cw)
                order == [Enrich(raw.payload, gen.id, now, sender) EXCEPT !.by = sender]
            IN  /\ Len(safe_read_json(ordersFile)) < MaxOrders
                /\ call => next_counter(counterFile, Ymd(now)).counter <= MaxCounter
                /\ counterFile' = IF call THEN gen.file ELSE counterFile
                /\ issued' = IF call
                             THEN [id |-> gen.id, date |-> Ymd(now)]
                             ELSE issued
                /\ ordersFile' = store_order(ordersFile, order, ow)
                /\ io' = [orders |-> ow,
                          failed |-> io.failed
                                     \cup (IF call /\ cw # "ok" THEN {"counter"} ELSE {})
                                     \cup (IF ow # "ok" THEN {"orders"} ELSE {})]
                /\ tasks' = [tasks EXCEPT ![t] =
                       Awaiting("webapp", sender,
                                IF call THEN "order" ELSE "order_with_id",
                                "confirm", order)]
    /\ UNCHANGED now

\* variant: everybody is the administrator
IsAdmin_any(sender) == TRUE

IsAdmin(sender) == sender = ADMIN_ID

admin_setstatus(t, sender, args, ow) ==
    /\ Free(t)
    /\ LET me == Awaiting("setstatus", sender, "", "", NoOrder)
           r == update_order_status(ordersFile, args.order_id, args.new_status, now, ow)
       IN  IF ~IsAdmin(sender)
           THEN /\ tasks' = [tasks EXCEPT ![t] = Done(me)]
                /\ UNCHANGED <<ordersFile, io>>
           ELSE IF args.n = 0
           THEN /\ tasks' = [tasks EXCEPT ![t] = [me EXCEPT !.reply = "usage"]]
                /\ UNCHANGED <<ordersFile, io>>
           ELSE IF args.n < 2
           THEN /\ tasks' = [tasks EXCEPT ![t] = [me EXCEPT !.reply = "two_arguments"]]
                /\ UNCHANGED <<ordersFile, io>>
           ELSE IF r.found = 0
           THEN /\ tasks' = [tasks EXCEPT ![t] =
                       [me EXCEPT !.input = "update", !.reply = "not_found",
                                  !.args = args]]
                /\ UNCHANGED <<ordersFile, io>>
           ELSE /\ tasks' = [tasks EXCEPT ![t] =
                       [me EXCEPT !.input = "update", !.reply = "status_updated",
                                  !.args = args, !.order = r.db[r.found]]]
                /\ ordersFile' = r.file
                /\ io' = Wrote("orders", ow)
    /\ UNCHANGED <<now, counterFile, issued>>

my_orders(t, sender) ==
    /\ Free(t)
    /\ LET orders == get_user_orders(ordersFile, sender, LIST_LIMIT)
       IN  tasks' = [tasks EXCEPT ![t] =
               Awaiting("my_orders", sender, "",
                        IF orders = <<>> THEN "no_orders" ELSE "orders", NoOrder)]
    /\ UNCHANGED <<now, counterFile, ordersFile, issued, io>>

admin_orders(t, sender) ==
    /\ Free(t)
    /\ LET last == get_last_orders(ordersFile, LIST_LIMIT)
           me == Awaiting("orders", sender, "",
                          IF last = <<>> THEN "no_orders" ELSE "orders", NoOrder)
       IN  tasks' = [tasks EXCEPT ![t] = IF IsAdmin(sender) THEN me ELSE Done(me)]
    /\ UNCHANGED <<now, counterFile, ordersFile, issued, io>>

\* `await message.answer(...)` returns, or raises and ends the handler
answered(t, ok) ==
    /\ tasks[t].pc = "answer"
    /\ LET task == [tasks[t] EXCEPT !.sent = Append(@,
                        [to |-> tasks[t].to, kind |-> tasks[t].reply, ok |-> ok])]
       IN  tasks' = [tasks EXCEPT ![t] =
               IF ~ok THEN Done(task)
               ELSE IF task.reply = "confirm"
               THEN [task EXCEPT !.pc = "notify", !.reply = "new_order", !.to = ADMIN_ID]
               ELSE IF task.reply = "status_updated" /\ task.order.tgId # 0
               THEN [task EXCEPT !.pc = "notify", !.reply = "status",
                                 !.to = task.order.tgId]
               ELSE Done(task)]
    /\ UNCHANGED <<now, counterFile, ordersFile, issued, io>>

\* `await bot.send_message(...)` inside try/except returns or raises
notified(t, ok) ==
    /\ tasks[t].pc = "notify"
    /\ tasks' = [tasks EXCEPT ![t] = Done([tasks[t] EXCEPT !.sent = Append(@,
                     [to |-> tasks[t].to, kind |-> tasks[t].reply, ok |-> ok])])]
    /\ UNCHANGED <<now, counterFile, ordersFile, issued, io>>

\* the write outcomes a handler can meet: only a handler that writes meets one
CounterOutcomes(raw) ==
    IF raw.json = "object" /\ raw.payload.type = "order" /\ ~Truthy(raw.payload.orderId)
    THEN WriteOutcomes ELSE {"ok"}

OrdersOutcomes(raw) ==
    IF raw.json = "object" /\ raw.payload.type = "order" THEN WriteOutcomes ELSE {"ok"}

UpdateOutcomes(sender, args) ==
    IF IsAdmin(sender) /\ args.n = 2 THEN WriteOutcomes ELSE {"ok"}

\* one handler at a time: every update is handled to its end before the next
Next ==
    \/ Tick
    \/ \E sender \in Users, raw \in Raws :
          \E cw \in CounterOutcomes(raw), ow \in OrdersOutcomes(raw) :
             on_webapp_data(1, sender, raw, cw, ow)
    \/ \E sender \in Users, args \in Args :
          \E ow \in UpdateOutcomes(sender, args) : admin_setstatus(1, sender, args, ow)
    \/ \E sender \in Users : my_orders(1, sender)
    \/ \E sender \in Users : admin_orders(1, sender)
    \/ \E ok \in BOOLEAN : answered(1, ok)
    \/ \E ok \in BOOLEAN : notified(1, ok)

Spec == Init /\ [][Next]_vars

\* the handlers of several updates as concurrent tasks of one event loop,
\* interleaving at their awaits
ConcRaws == {[json |-> "object", payload |-> Plain]}

ConcArgs == {[n |-> 2, order_id |-> FirstId, new_status |-> "courier"]}

NextConc ==
    \/ Tick
    \/ \E t \in Tasks, raw \in ConcRaws :
          \E cw \in CounterOutcomes(raw), ow \in OrdersOutcomes(raw) :
             on_webapp_data(t, 2, raw, cw, ow)
    \/ \E t \in Tasks, args \in ConcArgs :
          \E ow \in UpdateOutcomes(ADMIN_ID, args) : admin_setstatus(t, ADMIN_ID, args, ow)
    \/ \E t \in Tasks, ok \in BOOLEAN : answered(t, ok)
    \/ \E t \in Tasks, ok \in BOOLEAN : notified(t, ok)

SpecConc == Init /\ [][NextConc]_vars

\* ------------------------------------------------------------- claims
Store == safe_read_json(ordersFile)

Key(o) == safe_str(o.createdAt)

\* task t starts handling an order in this step
Intake(t) ==
    /\ Free(t)
    /\ tasks'[t].pc = "answer"
    /\ tasks'[t].op = "webapp"
    /\ tasks'[t].reply = "confirm"

\* task t is suspended in the handler of an order
InFlight(t) == tasks[t].op = "webapp" /\ tasks[t].pc \in {"answer", "notify"}
                  /\ tasks[t].order # NoOrder

\* the record of order o is in the store, whatever its status has become
Present(o) ==
    \E i \in DOMAIN Store :
        [Store[i] EXCEPT !.status = o.status, !.statusUpdatedAt = o.statusUpdatedAt] = o

\* C1: no two records of the persisted order store have the same orderId.
C1_UniqueOrderIds ==
    \A i, j \in DOMAIN Store : i # j => Store[i].orderId # Store[j].orderId

\* the number after the last dash of an order id
RECURSIVE ParseInt(_, _)
ParseInt(s, acc) == IF s = <<>> THEN acc ELSE ParseInt(Tail(s), 10 * acc + (Head(s) - ZERO))

RECURSIVE AfterLastDash(_, _)
AfterLastDash(s, acc) ==
    IF s = <<>> THEN acc
    ELSE IF Head(s) = DASH THEN AfterLastDash(Tail(s), <<>>)
    ELSE AfterLastDash(Tail(s), Append(acc, Head(s)))

SeqOf(id) == ParseInt(AfterLastDash(id, <<>>), 0)

\* C2: of two consecutive calls of get_next_order_id on the same day, the
\* second returns the sequence number of the first plus 1.
C2_ConsecutiveIds ==
    [][\A t \in Tasks :
          (Intake(t) /\ tasks'[t].input = "order" /\ issued # NoCall
              /\ issued.date = issued'.date)
          => SeqOf(issued'.id) = SeqOf(issued.id) + 1]_vars

\* C3: store_order(o) immediately followed by get_last_orders(1) returns
\* exactly the record o.
C3_RoundTrip ==
    [][\A t \in Tasks :
          Intake(t) => get_last_orders(ordersFile', 1) = <<tasks'[t].order>>]_vars

\* C3 as amended: it does when the write of the orders file succeeds and the
\* sort key of o's createdAt is greater than that of every record already stored.
C3_RoundTripOfNewest ==
    [][\A t \in Tasks :
          (/\ Intake(t)
           /\ io'.orders = "ok"
           /\ \A i \in DOMAIN Store : StrLess(Key(Store[i]), Key(tasks'[t].order)))
          => get_last_orders(ordersFile', 1) = <<tasks'[t].order>>]_vars

C3_Witness ==
    \E t \in Tasks :
        /\ InFlight(t) /\ tasks[t].pc = "answer"
        /\ io.orders = "ok"
        /\ Len(Store) = 2
        /\ Store[2] = tasks[t].order
        /\ StrLess(Key(Store[1]), Key(Store[2]))

\* C4: a /setstatus from anybody but the administrator leaves the files as
\* they are and sends no message: the handler ends at once.
C4_NonAdminIgnored ==
    [][\A t \in Tasks :
          (/\ Free(t)
           /\ tasks'[t] # tasks[t]
           /\ tasks'[t].op = "setstatus"
           /\ tasks'[t].sender # ADMIN_ID)
          => /\ ordersFile' = ordersFile
             /\ counterFile' = counterFile
             /\ tasks'[t].pc = "done"
             /\ tasks'[t].sent = <<>>]_vars

C4_Witness ==
    \E t \in Tasks :
        /\ tasks[t].op = "setstatus" /\ tasks[t].sender # ADMIN_ID
        /\ tasks[t].pc = "done" /\ tasks[t].sent = <<>>
        /\ \E i \in DOMAIN Store : PyStr(Store[i].orderId) = Dec(7)

\* what get_user_orders(u, limit) returns: only records of the store that u
\* submitted, at most limit of them
OwnedAndBounded(u, limit) ==
    LET r == get_user_orders(ordersFile, u, limit)
    IN  /\ Len(r) <= limit
        /\ \A k \in DOMAIN r : r[k].by = u /\ \E i \in DOMAIN Store : Store[i] = r[k]

\* C5: every stored record has the tgId of the sender of its Intake, and
\* get_user_orders(u, limit) returns only orders u submitted, at most limit of
\* them, in descending order of createdAt.
C5_OwnOrdersByCreatedAt ==
    /\ \A i \in DOMAIN Store : Store[i].tgId = Store[i].by
    /\ \A u \in Users, limit \in 0..MaxLimit :
          /\ OwnedAndBounded(u, limit)
          /\ LET r == get_user_orders(ordersFile, u, limit)
             IN  \A k \in 1..(Len(r) - 1) :
                    StrLeq(PyStr(r[k + 1].createdAt), PyStr(r[k].createdAt))

\* C5 as amended: the order is that of the sort key, safe_str(createdAt), which
\* is createdAt without the blanks around it.
C5_OwnOrdersBySortKey ==
    /\ \A i \in DOMAIN Store : Store[i].tgId = Store[i].by
    /\ \A u \in Users, limit \in 0..MaxLimit :
          /\ OwnedAndBounded(u, limit)
          /\ LET r == get_user_orders(ordersFile, u, limit)
             IN  \A k \in 1..(Len(r) - 1) : StrLeq(Key(r[k + 1]), Key(r[k]))

C5_Witness ==
    /\ Len(Store) = 2
    /\ Store[1].by = 2 /\ Store[2].by = 2
    /\ Store[2].orderId = Num(7)
    /\ StrLess(Key(Store[1]), Key(Store[2]))
    /\ get_user_orders(ordersFile, 2, 1) = <<Store[2]>>
    /\ get_user_orders(ordersFile, ADMIN_ID, 1) = <<>>

\* C6: an Intake whose payload is not JSON, or is JSON but no order, ends
\* with one reply to the sender: the parse error for the first, the
\* acknowledgment for the second.
C6_OneReply ==
    \A t \in Tasks :
        (/\ tasks[t].op = "webapp" /\ tasks[t].pc = "done"
         /\ tasks[t].input \notin {"order", "order_with_id"})
        => /\ Len(tasks[t].sent) = 1
           /\ tasks[t].sent[1].to = tasks[t].sender
           /\ tasks[t].sent[1].kind =
                 IF tasks[t].input = "invalid" THEN "parse_error" ELSE "ack"

NoMatch(db, order_id) == \A i \in DOMAIN db : PyStr(db[i].orderId) # order_id

\* C7: the administrator's /setstatus for an orderId that no record has is
\* answered with the not-found message, to the administrator and nobody else,
\* and leaves the orders file as it is.
C7_NotFound ==
    [][\A t \in Tasks :
          /\ (/\ Free(t)
              /\ tasks'[t].pc = "answer"
              /\ tasks'[t].op = "setstatus"
              /\ tasks'[t].input = "update"
              /\ NoMatch(Store, tasks'[t].args.order_id))
             => /\ tasks'[t].reply = "not_found"
                /\ tasks'[t].to = tasks'[t].sender
                /\ tasks'[t].sent = <<>>
                /\ ordersFile' = ordersFile
          /\ (tasks[t].reply = "not_found" /\ tasks'[t] # tasks[t])
             => /\ tasks'[t].pc = "done"
                /\ Len(tasks'[t].sent) = 1
                /\ tasks'[t].sent[1].to = tasks[t].sender
                /\ tasks'[t].sent[1].kind = "not_found"
                /\ ordersFile' = ordersFile]_vars

C7_Witness ==
    \E t \in Tasks :
        /\ tasks[t].op = "setstatus" /\ tasks[t].pc = "done"
        /\ Len(tasks[t].sent) = 1 /\ tasks[t].sent[1].kind = "not_found"
        /\ Store # <<>>

\* task t finds the record and updates it in this step
Update(t) ==
    /\ Free(t)
    /\ tasks'[t].pc = "answer"
    /\ tasks'[t].op = "setstatus"
    /\ tasks'[t].reply = "status_updated"

\* db2 is db with only status and statusUpdatedAt of the first record that
\* has the orderId changed
OnlyFirstMatchChanged(db, db2, order_id, new_status, n) ==
    /\ Len(db2) = Len(db)
    /\ \A i \in DOMAIN db :
          IF PyStr(db[i].orderId) = order_id
             /\ \A j \in 1..(i - 1) : PyStr(db[j].orderId) # order_id
          THEN db2[i] = [db[i] EXCEPT !.status = new_status,
                                      !.statusUpdatedAt = Str(Timestamp(n))]
          ELSE db2[i] = db[i]

C10_NoLostUpdate ==
    /\ [](io.failed = {}
          => /\ \A t, u \in Tasks :
                   (t # u /\ InFlight(t) /\ InFlight(u))
                   => tasks[t].order.orderId # tasks[u].order.orderId
             /\ \A t \in Tasks : InFlight(t) => Present(tasks[t].order)
             /\ \A i, j \in DOMAIN Store :
                   i # j => Store[i].orderId # Store[j].orderId)
    /\ [][\A t \in Tasks :
            (Intake(t) /\ io'.failed = {})
            => Store' = Append(Store, tasks'[t].order)]_vars

C10_Witness ==
    /\ io.failed = {}
    /\ \A t \in Tasks : InFlight(t)
    /\ Len(Store) = 2
    /\ Store[1].status = "courier"
    /\ Store[1].createdAt = Store[2].createdAt
====
